---- MODULE Spec2Model ----
(***************************************************************************)
(* Model of the SCX provider for the AI SDK (ProviderV3 generation):       *)
(*   createScx          the provider facade      (scx-provider)            *)
(*   ScxEmbeddingModel.doEmbed                   (scx-embedding-model)     *)
(*   ScxTranscriptionModel.doGenerate            (scx-transcription-model) *)
(* JavaScript values that can be `undefined` are tagged records            *)
(* [t |-> "undefined"], [t |-> "string", v |-> ...], ...; plain objects    *)
(* whose key order does not matter (header maps, parsed response bodies)   *)
(* are functions from the present keys; the request body, whose key order  *)
(* shows in JSON.stringify, is a sequence of <<key, value>> pairs.         *)
(***************************************************************************)
EXTENDS Integers, Sequences, FiniteSets, TLC

VARIABLES env, provider, models, calls, chat

vars == <<env, provider, models, calls, chat>>

----------------------------------------------------------------------------
(* Bounds of the model *)

MaxInputs == 2      \* longest `values` list handed to doEmbed
MaxData == 2        \* longest array of {embedding} entries in a response
MaxAudioLen == 3    \* longest Uint8Array handed to doGenerate
MaxCalls == 2       \* calls that can be in progress at once (SpecConcurrent)

----------------------------------------------------------------------------
(* JavaScript values *)

Undefined == [t |-> "undefined"]
Null == [t |-> "null"]
Str(s) == [t |-> "string", v |-> s]
Num(n) == [t |-> "number", v |-> n]
Bytes(b) == [t |-> "Uint8Array", v |-> b]

IsString(x) == x.t = "string"

(* { ...base, ...over } on unordered objects: later overrides earlier. *)
Spread(base, over) ==
    [k \in DOMAIN base \cup DOMAIN over |->
        IF k \in DOMAIN over THEN over[k] ELSE base[k]]

EmptyObj == [k \in {} |-> ""]

(* a ?? b *)
Nullish(a, b) == IF a = Undefined \/ a = Null THEN b ELSE a

----------------------------------------------------------------------------
(* Provider settings and key resolution *)

DefaultBaseURL == "https://api.scx.ai/v1"

(* withoutTrailingSlash(url): url?.replace(/\/$/, '') *)
withoutTrailingSlash(url) ==
    IF url = Undefined THEN Undefined
    ELSE IF Len(url.v) > 0 /\ SubSeq(url.v, Len(url.v), Len(url.v)) = "/"
         THEN Str(SubSeq(url.v, 1, Len(url.v) - 1))
         ELSE url

(* A plain object that may be absent: Undefined or Obj(map). *)
Obj(m) == [t |-> "object", v |-> m]

(* { ...x } of an optional object: spreading undefined adds nothing. *)
SpreadOpt(base, x) == IF x = Undefined THEN base ELSE Spread(base, x.v)

(* ScxProviderSettings: { baseURL?, apiKey?, headers?, fetch? }.  `fetch` is *)
(* the caller's own transport; RuntimeFetch is the global fetch of the       *)
(* runtime, which the translators fall back to.                              *)
RuntimeFetch == [t |-> "function", name |-> "fetch"]
CustomFetch == [t |-> "function", name |-> "options.fetch"]
SettingsFetches == {Undefined, CustomFetch}
SettingsApiKeys == {Undefined, Str("sk-opt")}
SettingsHeaders ==
    { Undefined,
      Obj([k \in {"X-Org"} |-> "acme"]),
      Obj([k \in {"Authorization"} |-> "Basic abc"]),
      Obj([k \in {"Content-Type"} |-> "text/plain"]) }
SettingsBaseURLs == {Undefined, Str("https://h.example/v1/")}

SettingsDomain ==
    [apiKey : SettingsApiKeys, headers : SettingsHeaders, baseURL : SettingsBaseURLs,
     fetch : SettingsFetches]

(* process.env.SCX_API_KEY *)
EnvDomain == {Undefined, Str("sk-env-1"), Str("sk-env-2")}

(* loadApiKey({apiKey, environmentVariableName: 'SCX_API_KEY'}): the         *)
(* configured key when it is a string, else the environment variable, else   *)
(* it throws.                                                                *)
loadApiKey(apiKey, envValue) ==
    IF apiKey # Undefined THEN [ok |-> TRUE, key |-> apiKey.v]
    ELSE IF envValue # Undefined THEN [ok |-> TRUE, key |-> envValue.v]
    ELSE [ok |-> FALSE, error |-> "LoadAPIKeyError"]

(* getApiKey = () => loadApiKey({apiKey: options.apiKey, ...}) *)
getApiKey(options, envValue) == loadApiKey(options.apiKey, envValue)

(* Mutant of getHeaders: the key is the one resolved when the provider was   *)
(* constructed, not the one current now.                                     *)
getHeaders_CachedKey(options, envValue) ==
    [ok |-> TRUE,
     headers |-> SpreadOpt([h \in {"Authorization"} |->
                               "Bearer " \o provider.openaiCompatible.apiKey],
                           options.headers)]

(* getHeaders = () => ({ Authorization: `Bearer ${getApiKey()}`,             *)
(*                       ...options.headers })                                *)
getHeaders(options, envValue) ==
    LET k == getApiKey(options, envValue) IN
    IF ~k.ok THEN k
    ELSE [ok |-> TRUE,
          headers |-> SpreadOpt([h \in {"Authorization"} |-> "Bearer " \o k.key],
                                options.headers)]

(* createScx(options): resolves the base URL, builds the OpenAI-compatible   *)
(* chat delegate (which takes the key as a value, resolved right here) and   *)
(* returns the provider; a throw of getApiKey() leaves no provider.          *)
createScx(options, envValue) ==
    LET baseURL == Nullish(withoutTrailingSlash(options.baseURL), Str(DefaultBaseURL))
        k == getApiKey(options, envValue)
    IN  IF ~k.ok
        THEN [status |-> "threw", error |-> k.error, options |-> options]
        ELSE [status |-> "ready",
              options |-> options,
              baseURL |-> baseURL.v,
              openaiCompatible |-> [name |-> "scx",
                                    baseURL |-> baseURL.v,
                                    apiKey |-> k.key,
                                    headers |-> options.headers,
                                    fetch |-> options.fetch]]

(* openaiCompatible.chatModel(modelId): a chat model of the delegate, which  *)
(* works with the settings the delegate was built with.                      *)
chatModel(openaiCompatible, modelId) ==
    [kind |-> "chat", modelId |-> modelId,
     provider |-> openaiCompatible.name \o ".chat",
     config |-> openaiCompatible]

(* const createChatModel = (modelId) => openaiCompatible.chatModel(modelId) *)
createChatModel(p, modelId) == chatModel(p.openaiCompatible, modelId)

NewKeywordMessage == "The SCX model function cannot be called with the new keyword."

(* The ways of asking the provider for a chat model: the provider function   *)
(* itself, provider.languageModel and provider.chat.                         *)
ChatEntryPoints == {"provider", "languageModel", "chat"}

Threw(name, message) == [status |-> "threw", name |-> name, message |-> message]
Returned(model) == [status |-> "returned", model |-> model]

(* Mutant of ProviderCall: no test of new.target. *)
ProviderCall_NoGuard(p, entry, modelId, newTarget) ==
    IF newTarget /\ entry # "provider"
    THEN Threw("TypeError", "not a constructor")
    ELSE Returned(createChatModel(p, modelId))

(* provider(modelId), provider.languageModel(modelId), provider.chat(modelId) *)
(* called plainly or with `new`.  The provider function tests new.target;    *)
(* the other two are arrow functions, which the language refuses to          *)
(* construct.                                                                *)
ProviderCall(p, entry, modelId, newTarget) ==
    IF newTarget
    THEN IF entry = "provider"
         THEN Threw("Error", NewKeywordMessage)
         ELSE Threw("TypeError", "not a constructor")
    ELSE Returned(createChatModel(p, modelId))

ChatModelId == "DeepSeek-V3.1"

(* No call of a chat entry point is waiting to be taken by the caller. *)
NoChatCall == [status |-> "none"]

----------------------------------------------------------------------------
(* Header merge shared by doEmbed and doGenerate *)

(* Mutant of ApplyAdditionalHeaders: no test for undefined, so an undefined  *)
(* value is written and goes out as the text "undefined".                    *)
ApplyAdditionalHeaders_NoSkip(headers, additionalHeaders) ==
    IF additionalHeaders = Undefined THEN headers
    ELSE LET add == additionalHeaders.v
         IN  [k \in DOMAIN headers \cup DOMAIN add |->
                 IF k \in DOMAIN add
                 THEN IF add[k] = Undefined THEN "undefined" ELSE add[k].v
                 ELSE headers[k]]

(* for (const [key, value] of Object.entries(additionalHeaders))             *)
(*   if (value !== undefined) headers[key] = value;                          *)
ApplyAdditionalHeaders(headers, additionalHeaders) ==
    IF additionalHeaders = Undefined THEN headers
    ELSE LET add == additionalHeaders.v
             def == {k \in DOMAIN add : add[k] # Undefined}
         IN  [k \in DOMAIN headers \cup def |->
                 IF k \in def THEN add[k].v ELSE headers[k]]

(* Mutant of BuildHeaders: the fixed Content-Type is left out. *)
BuildHeaders_NoContentType(configHeaders, additionalHeaders) ==
    ApplyAdditionalHeaders(configHeaders, additionalHeaders)

(* const headers = { 'Content-Type': 'application/json',                     *)
(*                   ...this.config.headers() }; then the per-call headers.  *)
BuildHeaders(configHeaders, additionalHeaders) ==
    ApplyAdditionalHeaders(
        Spread([h \in {"Content-Type"} |-> "application/json"], configHeaders),
        additionalHeaders)

(* Per-call header bags a caller may pass. *)
PerCallHeaders ==
    { Undefined,
      Obj([k \in {"X-Trace"} |-> Undefined]),
      Obj([k \in {"X-Trace"} |-> Str("t-1")]),
      Obj([k \in {"Authorization"} |-> Str("Bearer per-call")]),
      Obj([k \in {"Content-Type", "X-Org"} |->
             IF k = "X-Org" THEN Undefined ELSE Str("text/plain")]),
      Obj([k \in {"Authorization", "Content-Type", "X-Org"} |->
             IF k = "X-Org" THEN Str("per-call") ELSE Undefined]) }

----------------------------------------------------------------------------
(* JSON.stringify of the request bodies.  An ordered object is a sequence   *)
(* of <<key, value>> pairs in insertion order; a value is Str, Num, Arr or   *)
(* Undefined.  The strings of the model need no escaping.                    *)

Arr(xs) == [t |-> "array", v |-> xs]

HasKey(o, k) == \E i \in 1..Len(o) : o[i][1] = k
GetKey(o, k) ==
    IF HasKey(o, k) THEN o[CHOOSE i \in 1..Len(o) : o[i][1] = k][2] ELSE Undefined

(* target[k] = v: an existing key keeps its place, a new key goes last. *)
SetKey(o, k, v) ==
    IF HasKey(o, k)
    THEN [i \in 1..Len(o) |-> IF o[i][1] = k THEN <<k, v>> ELSE o[i]]
    ELSE Append(o, <<k, v>>)

(* Object.assign(target, source) *)
RECURSIVE ObjectAssign(_, _)
ObjectAssign(target, source) ==
    IF source = <<>> THEN target
    ELSE ObjectAssign(SetKey(target, source[1][1], source[1][2]), Tail(source))

Quote(s) == "\"" \o s \o "\""

RECURSIVE JoinComma(_)
JoinComma(parts) ==
    IF parts = <<>> THEN ""
    ELSE IF Len(parts) = 1 THEN parts[1]
    ELSE parts[1] \o "," \o JoinComma(Tail(parts))

(* JSON text of a string, a number or an array of strings. *)
StringifyValue(x) ==
    IF x.t = "string" THEN Quote(x.v)
    ELSE IF x.t = "number" THEN ToString(x.v)
    ELSE "[" \o JoinComma([i \in 1..Len(x.v) |-> Quote(x.v[i].v)]) \o "]"

(* JSON.stringify(object): members in insertion order, members whose value  *)
(* is undefined left out.                                                    *)
JSONStringify(o) ==
    LET kept == SelectSeq(o, LAMBDA p : p[2] # Undefined)
    IN  "{" \o JoinComma([i \in 1..Len(kept) |->
                            Quote(kept[i][1]) \o ":" \o StringifyValue(kept[i][2])])
        \o "}"

----------------------------------------------------------------------------
(* HTTP responses as the transport hands them over *)

ResponseHeaders == [k \in {"content-type"} |-> "application/json"]

(* response.ok *)
ResponseOk(response) == response.status >= 200 /\ response.status <= 299

(* await response.json(): a body that is no JSON text rejects. *)
ResponseJson(response) ==
    IF response.body.shape = "text"
    THEN [ok |-> FALSE, error |-> "SyntaxError"]
    ELSE [ok |-> TRUE, value |-> response.body]

(* await response.text(): the body as it came. *)
ResponseText(response) == response.body

(* response.headers.forEach((value, key) => { responseHeaders[key] = value }) *)
CaptureHeaders(response) == [k \in DOMAIN response.headers |-> response.headers[k]]

ErrorOf(name, status, text) ==
    [t |-> "error", name |-> name, status |-> status, text |-> text]

(* throw new Error(`SCX <what> request failed: ${response.status} ${errorText}`) *)
HttpError(what, status, errorText) ==
    [t |-> "error", name |-> "Error", prefix |-> "SCX " \o what \o " request failed:",
     status |-> status, text |-> errorText]

Ok(value) == [t |-> "ok", value |-> value]

(* signal?.aborted: the state of the caller's AbortSignal, if there is one *)
SignalAborted(signal) == signal # Undefined /\ signal.aborted

(* What `await fetchFn(...)` resolves with: status and headers are there,    *)
(* the body is still to be read.                                             *)
ResponseHead(response) == [status |-> response.status, headers |-> response.headers]

(* What a call can reject with besides its own HTTP error: the reason of an  *)
(* aborted signal (the AbortError of controller.abort(), the TimeoutError of *)
(* AbortSignal.timeout(), or the value given to controller.abort(reason)),   *)
(* and the TypeError of a failed transport.                                  *)
AbortError == ErrorOf("AbortError", 0, Undefined)
TimeoutError == ErrorOf("TimeoutError", 0, Undefined)
StopError == ErrorOf("Error", 0, Str("stop"))
TransportError == ErrorOf("TypeError", 0, Undefined)

(* controller.abort() and controller.abort(new Error("stop")) *)
AbortReasons == {AbortError, StopError}

(* A call slot.  pc is "idle", "inflight" (awaiting fetchFn), "reading"      *)
(* (awaiting response.text() or response.json()) or "done" (settled).        *)
(* `head` is what fetchFn resolved with and `response` the same with the     *)
(* body, once read.  `aborted` and `reason` are the present state of the     *)
(* caller's signal (signal.aborted, signal.reason) and `abortedAt` the stage *)
(* the call was at when the caller aborted it:                               *)
(* "start" (before the call), "inflight", "reading", "done", or "none".      *)
IdleCall ==
    [pc |-> "idle", kind |-> "none", model |-> Undefined, options |-> Undefined,
     request |-> Undefined,
     envAtBuild |-> Undefined, fetchCount |-> 0, aborted |-> FALSE,
     reason |-> Undefined, abortedAt |-> "none", head |-> Undefined,
     response |-> Undefined, outcome |-> Undefined]

(* The slot of a call entered with `opts`: the signal may be aborted already *)
EnterCall(kind, model, opts, envValue) ==
    [IdleCall EXCEPT !.kind = kind, !.model = model, !.options = opts,
                     !.envAtBuild = envValue,
                     !.aborted = SignalAborted(opts.abortSignal),
                     !.reason = IF SignalAborted(opts.abortSignal)
                                THEN opts.abortSignal.reason ELSE Undefined,
                     !.abortedAt = IF SignalAborted(opts.abortSignal)
                                   THEN "start" ELSE "none"]

(* this.config.headers(): the closure the provider handed to the model,     *)
(* evaluated now, against the environment as it is now.                      *)
ConfigHeaders(model, envValue) == getHeaders(model.headers.options, envValue)

----------------------------------------------------------------------------
(* ScxEmbeddingModel *)

EmbeddingModelId == "E5-Mistral-7B-Instruct"

(* readonly maxEmbeddingsPerCall: declared to the caller, not enforced here *)
maxEmbeddingsPerCall == 2048

(* new ScxEmbeddingModel(modelId, {provider: 'scx.embedding', baseURL,      *)
(*                                 headers: getHeaders, fetch})              *)
createEmbeddingModel(p, modelId) ==
    [kind |-> "embedding", modelId |-> modelId, provider |-> "scx.embedding",
     maxEmbeddingsPerCall |-> maxEmbeddingsPerCall, supportsParallelCalls |-> TRUE,
     baseURL |-> p.baseURL, headers |-> [closure |-> "getHeaders", options |-> p.options],
     fetch |-> p.options.fetch]

(* const fetchFn = this.config.fetch ?? fetch *)
fetchFn(model) == Nullish(model.fetch, RuntimeFetch)

(* Mutant of doEmbedStart: the caller's signal is not handed to fetch. *)
doEmbedStart_NoSignal(model, opts, envValue) ==
    LET requestBody == << <<"model", Str(model.modelId)>>, <<"input", Arr(opts.values)>> >>
        h == ConfigHeaders(model, envValue)
    IN  IF ~h.ok
        THEN [EnterCall("embed", model, opts, envValue) EXCEPT
                 !.pc = "done",
                 !.outcome = ErrorOf(h.error, 0, Undefined)]
        ELSE [EnterCall("embed", model, opts, envValue) EXCEPT
                 !.pc = "inflight",
                 !.fetchCount = 1,
                 !.request = [url |-> model.baseURL \o "/embeddings",
                              method |-> "POST",
                              headers |-> BuildHeaders(h.headers, opts.headers),
                              body |-> JSONStringify(requestBody),
                              signal |-> Undefined]]

(* doEmbed up to and including the call of fetchFn. *)
doEmbedStart(model, opts, envValue) ==
    LET requestBody == << <<"model", Str(model.modelId)>>, <<"input", Arr(opts.values)>> >>
        h == ConfigHeaders(model, envValue)
    IN  IF ~h.ok
        THEN [EnterCall("embed", model, opts, envValue) EXCEPT
                 !.pc = "done",
                 !.outcome = ErrorOf(h.error, 0, Undefined)]
        ELSE [EnterCall("embed", model, opts, envValue) EXCEPT
                 !.pc = "inflight",
                 !.fetchCount = 1,
                 !.request = [url |-> model.baseURL \o "/embeddings",
                              method |-> "POST",
                              headers |-> BuildHeaders(h.headers, opts.headers),
                              body |-> JSONStringify(requestBody),
                              signal |-> opts.abortSignal]]

(* Mutant of EmbedEmbeddings: only the object shape is handled. *)
EmbedEmbeddings_ObjectOnly(responseBody) ==
    IF responseBody.shape = "object" /\ "data" \in DOMAIN responseBody.val
    THEN [i \in 1..Len(responseBody.val.data) |-> responseBody.val.data[i].embedding]
    ELSE <<>>

(* Mutant of EmbedUsage: `||` in place of `??`, so a total_tokens of 0 falls *)
(* through to prompt_tokens.                                                 *)
EmbedUsage_Falsy(responseBody) ==
    IF responseBody.shape # "array" /\ "usage" \in DOMAIN responseBody.val
    THEN LET u == responseBody.val.usage IN
         Obj([tokens |->
                IF "total_tokens" \in DOMAIN u /\ u.total_tokens # 0 THEN u.total_tokens
                ELSE IF "prompt_tokens" \in DOMAIN u /\ u.prompt_tokens # 0
                     THEN u.prompt_tokens
                ELSE 0])
    ELSE Undefined

(* embeddings and usage of a parsed success body *)
EmbedEmbeddings(responseBody) ==
    IF responseBody.shape = "array"
    THEN [i \in 1..Len(responseBody.val) |-> responseBody.val[i].embedding]
    ELSE IF "data" \in DOMAIN responseBody.val
         THEN [i \in 1..Len(responseBody.val.data) |-> responseBody.val.data[i].embedding]
         ELSE <<>>

EmbedUsage(responseBody) ==
    IF responseBody.shape # "array" /\ "usage" \in DOMAIN responseBody.val
    THEN LET u == responseBody.val.usage IN
         Obj([tokens |->
                IF "total_tokens" \in DOMAIN u THEN u.total_tokens
                ELSE IF "prompt_tokens" \in DOMAIN u THEN u.prompt_tokens
                ELSE 0])
    ELSE Undefined

(* Mutant of doEmbedFinish: the body is parsed as JSON before the status is  *)
(* looked at.                                                                *)
doEmbedFinish_ParseFirst(response) ==
    LET parsed == ResponseJson(response) IN
    IF ~parsed.ok THEN ErrorOf(parsed.error, 0, Undefined)
    ELSE IF ~ResponseOk(response)
    THEN HttpError("embedding", response.status, ResponseText(response))
    ELSE Ok([embeddings |-> EmbedEmbeddings(parsed.value),
             usage |-> EmbedUsage(parsed.value),
             warnings |-> <<>>,
             response |-> [headers |-> CaptureHeaders(response),
                           body |-> parsed.value]])

(* doEmbed from the response on. *)
doEmbedFinish(response) ==
    IF ~ResponseOk(response)
    THEN HttpError("embedding", response.status, ResponseText(response))
    ELSE LET parsed == ResponseJson(response) IN
         IF ~parsed.ok THEN ErrorOf(parsed.error, 0, Undefined)
         ELSE Ok([embeddings |-> EmbedEmbeddings(parsed.value),
                  usage |-> EmbedUsage(parsed.value),
                  warnings |-> <<>>,
                  response |-> [headers |-> CaptureHeaders(response),
                                body |-> parsed.value]])

----------------------------------------------------------------------------
(* ScxTranscriptionModel *)

TranscriptionModelId == "whisper-large-v3"

(* new ScxTranscriptionModel(modelId, {provider: 'scx.transcription',       *)
(*                                     baseURL, headers: getHeaders, fetch}) *)
createTranscriptionModel(p, modelId) ==
    [kind |-> "transcription", modelId |-> modelId, provider |-> "scx.transcription",
     baseURL |-> p.baseURL, headers |-> [closure |-> "getHeaders", options |-> p.options],
     fetch |-> p.options.fetch]

Base64Alphabet ==
    << "A", "B", "C", "D", "E", "F", "G", "H", "I", "J", "K", "L", "M",
       "N", "O", "P", "Q", "R", "S", "T", "U", "V", "W", "X", "Y", "Z",
       "a", "b", "c", "d", "e", "f", "g", "h", "i", "j", "k", "l", "m",
       "n", "o", "p", "q", "r", "s", "t", "u", "v", "w", "x", "y", "z",
       "0", "1", "2", "3", "4", "5", "6", "7", "8", "9", "+", "/" >>

B64(n) == Base64Alphabet[n + 1]

(* Mutant of Base64: the "=" padding is left out. *)
RECURSIVE Base64_NoPadding(_)
Base64_NoPadding(b) ==
    IF Len(b) = 0 THEN ""
    ELSE IF Len(b) = 1
         THEN B64(b[1] \div 4) \o B64((b[1] % 4) * 16)
    ELSE IF Len(b) = 2
         THEN B64(b[1] \div 4) \o B64((b[1] % 4) * 16 + b[2] \div 16)
              \o B64((b[2] % 16) * 4)
    ELSE B64(b[1] \div 4) \o B64((b[1] % 4) * 16 + b[2] \div 16)
         \o B64((b[2] % 16) * 4 + b[3] \div 64) \o B64(b[3] % 64)
         \o Base64_NoPadding(SubSeq(b, 4, Len(b)))

(* Buffer.from(bytes).toString('base64') *)
RECURSIVE Base64(_)
Base64(b) ==
    IF Len(b) = 0 THEN ""
    ELSE IF Len(b) = 1
         THEN B64(b[1] \div 4) \o B64((b[1] % 4) * 16) \o "=="
    ELSE IF Len(b) = 2
         THEN B64(b[1] \div 4) \o B64((b[1] % 4) * 16 + b[2] \div 16)
              \o B64((b[2] % 16) * 4) \o "="
    ELSE B64(b[1] \div 4) \o B64((b[1] % 4) * 16 + b[2] \div 16)
         \o B64((b[2] % 16) * 4 + b[3] \div 64) \o B64(b[3] % 64)
         \o Base64(SubSeq(b, 4, Len(b)))

(* const audioData = audio instanceof Uint8Array                             *)
(*     ? Buffer.from(audio).toString('base64') : audio                       *)
AudioData(audio) ==
    IF audio.t = "Uint8Array" THEN Str(Base64(audio.v)) ELSE audio

(* providerOptions?.scx *)
ScxOptions(providerOptions) ==
    IF providerOptions = Undefined THEN Undefined
    ELSE IF "scx" \in DOMAIN providerOptions.v THEN Obj(providerOptions.v["scx"])
    ELSE Undefined

(* Mutant of TranscriptionRequestBody: the base fields are written over the *)
(* provider options instead of under them.                                   *)
TranscriptionRequestBody_BaseWins(model, opts) ==
    LET base == << <<"model", Str(model.modelId)>>,
                   <<"audio", AudioData(opts.audio)>>,
                   <<"media_type", Str(opts.mediaType)>> >>
        scxOptions == ScxOptions(opts.providerOptions)
    IN  IF scxOptions = Undefined THEN base ELSE ObjectAssign(scxOptions.v, base)

(* requestBody = {model, audio: audioData, media_type: mediaType};           *)
(* if (scxOptions) Object.assign(requestBody, scxOptions)                    *)
TranscriptionRequestBody(model, opts) ==
    LET base == << <<"model", Str(model.modelId)>>,
                   <<"audio", AudioData(opts.audio)>>,
                   <<"media_type", Str(opts.mediaType)>> >>
        scxOptions == ScxOptions(opts.providerOptions)
    IN  IF scxOptions = Undefined THEN base ELSE ObjectAssign(base, scxOptions.v)

(* Mutant of doGenerateStart: fetchFn is called before the headers are built, *)
(* so a key that cannot be resolved fails the call after a request is out.   *)
doGenerateStart_FetchBeforeKey(model, opts, envValue) ==
    LET requestBody == TranscriptionRequestBody(model, opts)
        bodyString == JSONStringify(requestBody)
        h == ConfigHeaders(model, envValue)
    IN  IF ~h.ok
        THEN [EnterCall("transcribe", model, opts, envValue) EXCEPT
                 !.pc = "done",
                 !.fetchCount = 1,
                 !.outcome = ErrorOf(h.error, 0, Undefined)]
        ELSE [EnterCall("transcribe", model, opts, envValue) EXCEPT
                 !.pc = "inflight",
                 !.fetchCount = 1,
                 !.request = [url |-> model.baseURL \o "/transcriptions",
                              method |-> "POST",
                              headers |-> BuildHeaders(h.headers, opts.headers),
                              body |-> bodyString,
                              wire |-> requestBody,
                              signal |-> opts.abortSignal]]

(* doGenerate up to and including the call of fetchFn. *)
doGenerateStart(model, opts, envValue) ==
    LET requestBody == TranscriptionRequestBody(model, opts)
        bodyString == JSONStringify(requestBody)
        h == ConfigHeaders(model, envValue)
    IN  IF ~h.ok
        THEN [EnterCall("transcribe", model, opts, envValue) EXCEPT
                 !.pc = "done",
                 !.outcome = ErrorOf(h.error, 0, Undefined)]
        ELSE [EnterCall("transcribe", model, opts, envValue) EXCEPT
                 !.pc = "inflight",
                 !.fetchCount = 1,
                 !.request = [url |-> model.baseURL \o "/transcriptions",
                              method |-> "POST",
                              headers |-> BuildHeaders(h.headers, opts.headers),
                              body |-> bodyString,
                              wire |-> requestBody,
                              signal |-> opts.abortSignal]]

Field(o, k) == IF k \in DOMAIN o THEN o[k] ELSE Undefined

(* Mutant of TranscriptionSegments: start and end change places. *)
TranscriptionSegments_Swapped(responseBody) ==
    LET segments == Field(responseBody.val, "segments") IN
    IF segments = Undefined \/ segments = Null THEN <<>>
    ELSE [i \in 1..Len(segments.v) |->
            [text |-> Field(segments.v[i], "text"),
             startSecond |-> Field(segments.v[i], "end"),
             endSecond |-> Field(segments.v[i], "start")]]

(* responseBody.segments?.map(seg => ({text: seg.text,                       *)
(*     startSecond: seg.start, endSecond: seg.end})) ?? []                   *)
TranscriptionSegments(responseBody) ==
    LET segments == Field(responseBody.val, "segments") IN
    IF segments = Undefined \/ segments = Null THEN <<>>
    ELSE [i \in 1..Len(segments.v) |->
            [text |-> Field(segments.v[i], "text"),
             startSecond |-> Field(segments.v[i], "start"),
             endSecond |-> Field(segments.v[i], "end")]]

(* Mutant of doGenerateFinish: `data.segments.map(...)` without the `?.`, so *)
(* a body with no segments list throws a TypeError.                          *)
doGenerateFinish_StrictSegments(model, bodyString, response) ==
    IF ~ResponseOk(response)
    THEN HttpError("transcription", response.status, ResponseText(response))
    ELSE LET parsed == ResponseJson(response) IN
         IF ~parsed.ok THEN ErrorOf(parsed.error, 0, Undefined)
         ELSE IF Nullish(Field(parsed.value.val, "segments"), Undefined) = Undefined
         THEN ErrorOf("TypeError", 0, Undefined)
         ELSE Ok([text |-> Nullish(Field(parsed.value.val, "text"), Str("")),
                  segments |-> TranscriptionSegments(parsed.value),
                  language |-> Field(parsed.value.val, "language"),
                  durationInSeconds |-> Field(parsed.value.val, "duration"),
                  warnings |-> <<>>,
                  request |-> [body |-> bodyString],
                  response |-> [modelId |-> model.modelId,
                                headers |-> CaptureHeaders(response),
                                body |-> parsed.value]])

(* doGenerate from the response on; the timestamp of the result is left out. *)
doGenerateFinish(model, bodyString, response) ==
    IF ~ResponseOk(response)
    THEN HttpError("transcription", response.status, ResponseText(response))
    ELSE LET parsed == ResponseJson(response) IN
         IF ~parsed.ok THEN ErrorOf(parsed.error, 0, Undefined)
         ELSE Ok([text |-> Nullish(Field(parsed.value.val, "text"), Str("")),
                  segments |-> TranscriptionSegments(parsed.value),
                  language |-> Field(parsed.value.val, "language"),
                  durationInSeconds |-> Field(parsed.value.val, "duration"),
                  warnings |-> <<>>,
                  request |-> [body |-> bodyString],
                  response |-> [modelId |-> model.modelId,
                                headers |-> CaptureHeaders(response),
                                body |-> parsed.value]])

----------------------------------------------------------------------------
(* Inputs of the callers and answers of the remote API *)

AbortSignal == [t |-> "AbortSignal", aborted |-> FALSE, reason |-> Undefined]
AbortSignals == {Undefined, AbortSignal}

(* a signal the caller aborted before making the call *)
AbortedSignal == [t |-> "AbortSignal", aborted |-> TRUE, reason |-> AbortError]

(* AbortSignal.timeout(ms), fired before the call is made *)
TimedOutSignal == [t |-> "AbortSignal", aborted |-> TRUE, reason |-> TimeoutError]

InputAt(i) == IF i % 2 = 1 THEN Str("alpha") ELSE Str("beta")
ValuesDomain == {[i \in 1..n |-> InputAt(i)] : n \in 0..MaxInputs}

AudioByteAt(i) == <<255, 77, 97, 110, 0, 16>>[((i - 1) % 6) + 1]
AudioDomain ==
    {Bytes([i \in 1..n |-> AudioByteAt(i)]) : n \in 0..MaxAudioLen}
    \cup {Bytes(<<77, 97, 110>>), Str("TWFu"), Str("plain text")}

ProviderOptionsDomain ==
    { Undefined,
      Obj([k \in {"openai"} |-> << <<"language", Str("en")>> >>]),
      Obj([k \in {"scx"} |-> <<>>]),
      Obj([k \in {"scx"} |-> << <<"language", Str("en")>>, <<"temperature", Num(0)>> >>]),
      Obj([k \in {"scx"} |-> << <<"model", Str("other-model")>> >>]),
      Obj([k \in {"scx"} |-> << <<"prompt", Str("hi")>>, <<"audio", Num(7)>>,
                                <<"media_type", Str("audio/mp3")>> >>]) }

(* The vector the remote model computes for an input. *)
VectorOf(input) == IF input = Str("alpha") THEN <<1, 2>> ELSE <<3, 4>>
Vectors == {<<1, 2>>, <<3, 4>>}

RECURSIVE SeqsUpTo(_, _)
SeqsUpTo(S, n) ==
    IF n = 0 THEN {<<>>}
    ELSE LET shorter == SeqsUpTo(S, n - 1)
         IN  shorter \cup {Append(q, x) : q \in {r \in shorter : Len(r) = n - 1}, x \in S}

EmbeddingEntries == {[embedding |-> v] : v \in Vectors}
DataDomain == SeqsUpTo(EmbeddingEntries, MaxData)

UsageDomain ==
    { EmptyObj,
      [k \in {"total_tokens"} |-> 5],
      [k \in {"prompt_tokens"} |-> 7],
      [k \in {"total_tokens", "prompt_tokens"} |-> IF k = "total_tokens" THEN 5 ELSE 7],
      [k \in {"total_tokens", "prompt_tokens"} |-> IF k = "total_tokens" THEN 0 ELSE 7] }

TextBody(s) == [shape |-> "text", val |-> s]
ArrayBody(xs) == [shape |-> "array", val |-> xs]
ObjectBody(o) == [shape |-> "object", val |-> o]

EmbedObjects ==
    {EmptyObj}
    \cup {[k \in {"data"} |-> d] : d \in DataDomain}
    \cup {[k \in {"usage"} |-> u] : u \in UsageDomain}
    \cup {[data |-> d, usage |-> u] : d \in DataDomain, u \in UsageDomain}

EmbedBodies ==
    {TextBody("rate limited")}
    \cup {ArrayBody(d) : d \in DataDomain}
    \cup {ObjectBody(o) : o \in EmbedObjects}

ErrorBodies ==
    { TextBody("rate limited"),
      ObjectBody([k \in {"data"} |-> <<[embedding |-> <<1, 2>>]>>]) }

ErrorStatuses == {199, 300, 429, 500}

Response(status, body) == [status |-> status, headers |-> ResponseHeaders, body |-> body]

ErrorResponses == {Response(st, b) : st \in ErrorStatuses, b \in ErrorBodies}

Segment(text, start, end) == [text |-> text, start |-> start, end |-> end]

TranscriptionObjects ==
    { EmptyObj,
      [k \in {"text"} |-> Str("hi")],
      [text |-> Str("hi"), segments |-> Arr(<<Segment("hi", 0, 1)>>)],
      [k \in {"segments"} |-> Arr(<<>>)],
      [text |-> Str("hi there"),
       segments |-> Arr(<<Segment("hi", 0, 1), Segment("there", 1, 3)>>),
       language |-> Str("en"), duration |-> Num(3)],
      [k \in {"language"} |-> Str("en")],
      [text |-> Null, segments |-> Null, language |-> Null],
      [text |-> Str(""), segments |-> Arr(<<[text |-> "hi", start |-> 2]>>),
       duration |-> Num(0)] }

TranscriptionBodies ==
    {TextBody("rate limited")} \cup {ObjectBody(o) : o \in TranscriptionObjects}

(* A scope names the inputs one specification draws from. *)
Scope(settings, envValues, chatCalls, embedOptions, transcribeOptions, embedResponses, transcribeResponses, abortReasons) ==
    [abortReasons |-> abortReasons,
     settings |-> settings,
     envValues |-> envValues,
     chatCalls |-> chatCalls,
     embedOptions |-> embedOptions,
     transcribeOptions |-> transcribeOptions,
     embedResponses |-> embedResponses,
     transcribeResponses |-> transcribeResponses]

FewHeaders ==
    { Undefined,
      Obj([k \in {"X-Trace"} |-> Undefined]),
      Obj([k \in {"Authorization"} |-> Str("Bearer per-call")]) }

FewSettings ==
    { [apiKey |-> Undefined, headers |-> Undefined, baseURL |-> Undefined,
       fetch |-> Undefined],
      [apiKey |-> Str("sk-opt"), headers |-> Undefined, baseURL |-> Undefined,
       fetch |-> Undefined],
      [apiKey |-> Undefined, headers |-> Obj([k \in {"X-Org"} |-> "acme"]),
       baseURL |-> Str("https://h.example/v1/"), fetch |-> CustomFetch],
      [apiKey |-> Undefined, headers |-> Obj([k \in {"Authorization"} |-> "Basic abc"]),
       baseURL |-> Undefined, fetch |-> Undefined] }

PlainSettings ==
    {[apiKey |-> Undefined, headers |-> Undefined, baseURL |-> Undefined,
      fetch |-> Undefined]}

(* the settings of S that leave the transport to the runtime *)
DefaultTransport(S) == {s \in S : s.fetch = Undefined}

OneEmbedOption ==
    [values : {<<Str("alpha")>>}, headers : {Undefined}, abortSignal : {Undefined}]

OneTranscribeOption ==
    [audio : {Str("TWFu")}, mediaType : {"audio/wav"}, headers : {Undefined},
     abortSignal : {Undefined}, providerOptions : {Undefined}]

FewEmbedResponses ==
    { Response(200, ArrayBody(<<[embedding |-> <<1, 2>>]>>)),
      Response(200, TextBody("rate limited")),
      Response(429, TextBody("rate limited")) }

FewTranscribeResponses ==
    { Response(200, ObjectBody([k \in {"text"} |-> Str("hi")])),
      Response(200, TextBody("rate limited")),
      Response(429, TextBody("rate limited")) }

(* How a chat entry point is called: <<entry point, with `new`>>. *)
ChatCalls == ChatEntryPoints \X BOOLEAN
PlainChatCalls == {<<"provider", FALSE>>}

(* Spec: the life of a provider, its key and its calls. *)
Lifecycle ==
    Scope(FewSettings,
          EnvDomain,
          PlainChatCalls,
          [values : ValuesDomain, headers : FewHeaders,
           abortSignal : AbortSignals \cup {AbortedSignal, TimedOutSignal}],
          [audio : {Bytes(<<77, 97, 110>>), Str("TWFu")}, mediaType : {"audio/wav"},
           headers : FewHeaders,
           abortSignal : AbortSignals \cup {AbortedSignal, TimedOutSignal},
           providerOptions : {Undefined,
                              Obj([k \in {"scx"} |-> << <<"language", Str("en")>> >>])}],
          FewEmbedResponses \cup ErrorResponses,
          FewTranscribeResponses \cup ErrorResponses,
          AbortReasons)

(* SpecHeaders: every configured header set against every per-call set. *)
Headers ==
    Scope(DefaultTransport(SettingsDomain),
          EnvDomain,
          PlainChatCalls,
          [values : {<<Str("alpha")>>}, headers : PerCallHeaders, abortSignal : AbortSignals],
          [audio : {Str("TWFu")}, mediaType : {"audio/wav"}, headers : PerCallHeaders,
           abortSignal : AbortSignals, providerOptions : {Undefined}],
          FewEmbedResponses,
          FewTranscribeResponses,
          {AbortError})

(* SpecEmbed: every input list against every answer of the embeddings API. *)
Embedding ==
    Scope(PlainSettings,
          EnvDomain,
          PlainChatCalls,
          [values : ValuesDomain, headers : {Undefined}, abortSignal : AbortSignals],
          OneTranscribeOption,
          {Response(200, b) : b \in EmbedBodies} \cup ErrorResponses,
          FewTranscribeResponses,
          {AbortError})

(* SpecChat: every way of calling a chat entry point, on every provider. *)
Chat ==
    Scope(FewSettings,
          EnvDomain,
          ChatCalls,
          [values : {<<Str("alpha")>>}, headers : {Undefined}, abortSignal : AbortSignals],
          OneTranscribeOption,
          FewEmbedResponses,
          FewTranscribeResponses,
          {AbortError})

(* SpecConcurrent: several calls in progress at once on one provider, while  *)
(* the key in the environment is rotated.                                    *)
Concurrent ==
    Scope(PlainSettings,
          EnvDomain \ {Undefined},
          PlainChatCalls,
          [values : {<<Str("alpha")>>}, headers : {Undefined}, abortSignal : {AbortSignal}],
          OneTranscribeOption,
          { Response(200, ArrayBody(<<[embedding |-> <<1, 2>>]>>)) },
          { Response(429, TextBody("rate limited")) },
          {AbortError})

(* SpecTranscribe: every audio input against every provider-options bag. *)
Transcription ==
    Scope(PlainSettings,
          EnvDomain,
          PlainChatCalls,
          OneEmbedOption,
          [audio : AudioDomain, mediaType : {"audio/wav"}, headers : {Undefined},
           abortSignal : AbortSignals, providerOptions : ProviderOptionsDomain],
          FewEmbedResponses,
          {Response(200, b) : b \in TranscriptionBodies} \cup ErrorResponses,
          {AbortError})

----------------------------------------------------------------------------
(* The state machine *)

CallIds == {1}

Init ==
    /\ env \in EnvDomain
    /\ provider = [status |-> "none"]
    /\ models = {}
    /\ calls = [c \in CallIds |-> IdleCall]
    /\ chat = NoChatCall

(* As Init, with room for MaxCalls calls in progress at once. *)
InitConcurrent ==
    /\ env \in Concurrent.envValues
    /\ provider = [status |-> "none"]
    /\ models = {}
    /\ calls = [c \in 1..MaxCalls |-> IdleCall]
    /\ chat = NoChatCall

(* const scx = createScx(options) *)
CreateScx(D) ==
    /\ provider.status = "none"
    /\ \E options \in D.settings : provider' = createScx(options, env)
    /\ UNCHANGED <<env, models, calls, chat>>

(* The host sets, rotates or removes process.env.SCX_API_KEY. *)
SetEnv(D) ==
    /\ \E v \in D.envValues \ {env} : env' = v
    /\ UNCHANGED <<provider, models, calls, chat>>

(* provider(modelId) and its two aliases, plainly or with `new` *)
ChatCall(D) ==
    /\ provider.status = "ready"
    /\ chat = NoChatCall
    /\ \E how \in D.chatCalls :
          chat' = [entry |-> how[1], newTarget |-> how[2],
                   result |-> ProviderCall(provider, how[1], ChatModelId, how[2])]
    /\ UNCHANGED <<env, provider, models, calls>>

(* the caller takes the chat model or catches the error *)
ChatReturn ==
    /\ chat # NoChatCall
    /\ chat' = NoChatCall
    /\ UNCHANGED <<env, provider, models, calls>>

(* provider.embeddingModel(modelId) *)
EmbeddingModel ==
    /\ provider.status = "ready"
    /\ models' = models \cup {createEmbeddingModel(provider, EmbeddingModelId)}
    /\ models' # models
    /\ UNCHANGED <<env, provider, calls, chat>>

(* provider.transcriptionModel(modelId) *)
TranscriptionModel ==
    /\ provider.status = "ready"
    /\ models' = models \cup {createTranscriptionModel(provider, TranscriptionModelId)}
    /\ models' # models
    /\ UNCHANGED <<env, provider, calls, chat>>

(* Mutant of DoEmbedStart: the header map is kept between calls, and a call  *)
(* made while another request is in flight sends that request's headers.     *)
DoEmbedStart_SharedHeaders(c, D) ==
    /\ calls[c].pc = "idle"
    /\ \E m \in {x \in models : x.kind = "embedding"}, opts \in D.embedOptions :
          LET mine == doEmbedStart(m, opts, env)
              others == {d \in DOMAIN calls : d # c /\ calls[d].pc = "inflight"}
          IN  calls' = [calls EXCEPT ![c] =
                           IF others # {} /\ mine.pc = "inflight"
                           THEN [mine EXCEPT !.request.headers =
                                    calls[CHOOSE d \in others : TRUE].request.headers]
                           ELSE mine]
    /\ UNCHANGED <<env, provider, models, chat>>

(* model.doEmbed(opts), to its await of fetchFn *)
DoEmbedStart(c, D) ==
    /\ calls[c].pc = "idle"
    /\ \E m \in {x \in models : x.kind = "embedding"}, opts \in D.embedOptions :
          calls' = [calls EXCEPT ![c] = doEmbedStart(m, opts, env)]
    /\ UNCHANGED <<env, provider, models, chat>>

(* model.doGenerate(opts), to its await of fetchFn *)
DoGenerateStart(c, D) ==
    /\ calls[c].pc = "idle"
    /\ \E m \in {x \in models : x.kind = "transcription"}, opts \in D.transcribeOptions :
          calls' = [calls EXCEPT ![c] = doGenerateStart(m, opts, env)]
    /\ UNCHANGED <<env, provider, models, chat>>

(* The caller aborts the signal it passed: while the request is in flight,   *)
(* while the body of the response is being read, or after the call settled.  *)
Abort(c, D) ==
    /\ calls[c].pc \in {"inflight", "reading", "done"}
    /\ calls[c].options.abortSignal # Undefined
    /\ ~calls[c].aborted
    /\ \E reason \in D.abortReasons :
          calls' = [calls EXCEPT ![c].aborted = TRUE, ![c].reason = reason,
                                 ![c].abortedAt = calls[c].pc]
    /\ UNCHANGED <<env, provider, models, chat>>

(* `await fetchFn(...)`, `await response.text()` or `await response.json()`  *)
(* throws what the transport rejected with.                                  *)
OnReject(call, error) ==
    [call EXCEPT !.pc = "done", !.outcome = error]

(* The signal that fetchFn was given has been aborted. *)
Cancelled(call) == call.request.signal # Undefined /\ call.aborted

(* The transport of the call acts on the signal it is given: the fetch of    *)
(* the runtime does, a fetch of the caller need not.                         *)
HonoursSignal(call) == fetchFn(call.model) = RuntimeFetch

(* What the transport of the call can reject with: the fetch of the runtime  *)
(* rejects with the reason of the signal once it is aborted and with a       *)
(* TypeError for a failed request otherwise; a fetch of the caller can do    *)
(* either whatever the state of the signal.                                  *)
FetchRejections(call) ==
    IF HonoursSignal(call)
    THEN IF Cancelled(call) THEN {call.reason} ELSE {TransportError}
    ELSE {TransportError} \cup (IF Cancelled(call) THEN {call.reason} ELSE {})

(* `await fetchFn(...)` rejects: the code throws what fetchFn rejected with. *)
FetchReject(c) ==
    /\ calls[c].pc = "inflight"
    /\ \E error \in FetchRejections(calls[c]) :
          calls' = [calls EXCEPT ![c] = OnReject(calls[c], error)]
    /\ UNCHANGED <<env, provider, models, chat>>

(* Mutant of OnResponse: a 429 is answered by issuing the request again. *)
OnResponse_Retry429(call, response) ==
    IF response.status = 429 /\ call.fetchCount < 2
    THEN [call EXCEPT !.fetchCount = @ + 1]
    ELSE [call EXCEPT
             !.pc = "done",
             !.response = response,
             !.outcome = IF call.kind = "embed"
                         THEN doEmbedFinish(response)
                         ELSE doGenerateFinish(call.model, call.request.body, response)]

(* Mutant of OnResponse: the result of doGenerate carries a fresh            *)
(* serialization of the base fields instead of the string that was sent.     *)
OnResponse_Reserialized(call, response) ==
    [call EXCEPT
        !.pc = "done",
        !.response = response,
        !.outcome = IF call.kind = "embed"
                    THEN doEmbedFinish(response)
                    ELSE doGenerateFinish(
                             call.model,
                             JSONStringify(<< <<"model", Str(call.model.modelId)>>,
                                              <<"audio", AudioData(call.options.audio)>>,
                                              <<"media_type", Str(call.options.mediaType)>> >>),
                             response)]

(* the code after `await fetchFn(...)` of either translator, once the body   *)
(* it awaits (text() of a failure, json() of a success) has been read        *)
OnResponse(call, response) ==
    [call EXCEPT
        !.pc = "done",
        !.response = response,
        !.outcome = IF call.kind = "embed"
                    THEN doEmbedFinish(response)
                    ELSE doGenerateFinish(call.model, call.request.body, response)]

(* The answers of the remote API to a call of this kind. *)
ResponsesFor(call, D) ==
    IF call.kind = "embed" THEN D.embedResponses ELSE D.transcribeResponses

(* fetchFn resolves: status and headers of the response are in, and the call *)
(* goes on to await the body.  The code takes whatever fetchFn resolves      *)
(* with and never looks at the signal; it is the fetch of the runtime that   *)
(* does not resolve once its signal is aborted.                              *)
FetchRespond(c, D) ==
    /\ calls[c].pc = "inflight"
    /\ ~(HonoursSignal(calls[c]) /\ Cancelled(calls[c]))
    /\ \E r \in ResponsesFor(calls[c], D) :
          calls' = [calls EXCEPT ![c].pc = "reading", ![c].head = ResponseHead(r)]
    /\ UNCHANGED <<env, provider, models, chat>>

(* response.text() or response.json() resolves: the body has been read.  A   *)
(* transport whose body is not tied to the signal delivers it after an abort *)
(* as well.                                                                  *)
BodyArrive(c, D) ==
    /\ calls[c].pc = "reading"
    /\ \E r \in ResponsesFor(calls[c], D) :
          /\ ResponseHead(r) = calls[c].head
          /\ calls' = [calls EXCEPT ![c] = OnResponse(calls[c], r)]
    /\ UNCHANGED <<env, provider, models, chat>>

(* What reading the body can reject with: the stream failed (TypeError), or  *)
(* the signal was aborted and the transport ties the body to it (the reason  *)
(* of the signal, or TypeError for a body made unusable).                    *)
BodyRejections(call) ==
    {TransportError} \cup (IF Cancelled(call) THEN {call.reason} ELSE {})

(* response.text() or response.json() rejects: the code throws what the      *)
(* body read rejected with.                                                  *)
BodyReject(c) ==
    /\ calls[c].pc = "reading"
    /\ \E error \in BodyRejections(calls[c]) :
          calls' = [calls EXCEPT ![c] = OnReject(calls[c], error)]
    /\ UNCHANGED <<env, provider, models, chat>>

(* the caller takes the settled promise *)
Return(c) ==
    /\ calls[c].pc = "done"
    /\ calls' = [calls EXCEPT ![c] = IdleCall]
    /\ UNCHANGED <<env, provider, models, chat>>

NextIn(D) ==
    \/ CreateScx(D)
    \/ SetEnv(D)
    \/ ChatCall(D)
    \/ ChatReturn
    \/ EmbeddingModel
    \/ TranscriptionModel
    \/ \E c \in DOMAIN calls : DoEmbedStart(c, D)
    \/ \E c \in DOMAIN calls : DoGenerateStart(c, D)
    \/ \E c \in DOMAIN calls : Abort(c, D)
    \/ \E c \in DOMAIN calls : FetchRespond(c, D)
    \/ \E c \in DOMAIN calls : FetchReject(c)
    \/ \E c \in DOMAIN calls : BodyArrive(c, D)
    \/ \E c \in DOMAIN calls : BodyReject(c)
    \/ \E c \in DOMAIN calls : Return(c)

Next == NextIn(Lifecycle)
NextHeaders == NextIn(Headers)
NextEmbed == NextIn(Embedding)
NextTranscribe == NextIn(Transcription)
NextChat == NextIn(Chat)
NextConcurrent == NextIn(Concurrent)

Spec == Init /\ [][Next]_vars
SpecHeaders == Init /\ [][NextHeaders]_vars
SpecEmbed == Init /\ [][NextEmbed]_vars
SpecTranscribe == Init /\ [][NextTranscribe]_vars
SpecChat == Init /\ [][NextChat]_vars
SpecConcurrent == InitConcurrent /\ [][NextConcurrent]_vars

----------------------------------------------------------------------------
(* Properties: key resolution, construction, requests and HTTP errors       *)

Issued(c) == calls[c].request # Undefined

(* The key in force when call c built its headers: the configured key when  *)
(* there is one, else SCX_API_KEY as it was at that moment (Undefined when   *)
(* there was none).                                                          *)
KeyAtBuild(c) ==
    IF calls[c].model.headers.options.apiKey # Undefined
    THEN calls[c].model.headers.options.apiKey
    ELSE calls[c].envAtBuild

(* The request of call c carries `Authorization: Bearer <key in force>`. *)
CarriesKeyAtBuild(c) ==
    /\ KeyAtBuild(c) # Undefined
    /\ calls[c].request.headers["Authorization"] = "Bearer " \o KeyAtBuild(c).v

(* The names a configured or a defined per-call header gives a value to. *)
ConfiguredNames(c) ==
    IF calls[c].model.headers.options.headers = Undefined THEN {}
    ELSE DOMAIN calls[c].model.headers.options.headers.v

PerCallNames(c) ==
    IF calls[c].options.headers = Undefined THEN {}
    ELSE {k \in DOMAIN calls[c].options.headers.v :
            calls[c].options.headers.v[k] # Undefined}

Overridden(c, name) == name \in ConfiguredNames(c) \cup PerCallNames(c)

(* C1 as stated: the Authorization header of every request carries the key  *)
(* that was current when the request built its headers.                      *)
C1_Original ==
    \A c \in CallIds :
        Issued(c) => CarriesKeyAtBuild(c)

(* C1, amended: the key is resolved afresh on every doEmbed/doGenerate call: *)
(* unless a configured or per-call header named Authorization overrides it,  *)
(* the Authorization header of a request carries the key that was current    *)
(* when the request built its headers, whatever key the provider saw when it *)
(* was constructed.                                                          *)
C1_FreshKey ==
    \A c \in CallIds :
        (Issued(c) /\ ~Overridden(c, "Authorization")) => CarriesKeyAtBuild(c)

(* A request sent with a key other than the one the provider was built with. *)
C1_Witness ==
    \E c \in CallIds :
        /\ Issued(c)
        /\ ~Overridden(c, "Authorization")
        /\ CarriesKeyAtBuild(c)
        /\ KeyAtBuild(c).v # provider.openaiCompatible.apiKey

(* C2 as stated: constructing a provider never raises the configuration     *)
(* error, also when no key is configured and none is in the environment.     *)
C2_ConstructionSucceeds == provider.status # "threw"

(* C3 as stated: every invocation of doEmbed or doGenerate that has settled *)
(* performed exactly one HTTP request.                                       *)
C3_Original ==
    \A c \in CallIds : calls[c].pc = "done" => calls[c].fetchCount = 1

(* C3, amended: an invocation never performs more than one HTTP request; it  *)
(* has performed exactly one when it settles with a success, an HTTP error,  *)
(* a transport error or a cancellation, and none when it fails resolving the *)
(* key; a failed request is not retried.                                     *)
C3_AtMostOneRequest ==
    \A c \in CallIds :
        /\ calls[c].fetchCount <= 1
        /\ calls[c].pc \in {"inflight", "reading"} => calls[c].fetchCount = 1
        /\ calls[c].pc = "done" =>
              LET keyFailed == /\ calls[c].outcome.t = "error"
                               /\ calls[c].outcome.name = "LoadAPIKeyError"
              IN  calls[c].fetchCount = IF keyFailed THEN 0 ELSE 1

(* A call that failed on a 429 after its one request. *)
C3_Witness ==
    \E c \in CallIds :
        /\ calls[c].pc = "done"
        /\ calls[c].response # Undefined
        /\ calls[c].response.status = 429
        /\ calls[c].outcome.t = "error"
        /\ calls[c].fetchCount = 1

NonSuccess(status) == status < 200 \/ status > 299

(* The call was answered with a non-success status and has settled. *)
SettledOnNonSuccess(c) ==
    /\ calls[c].pc = "done"
    /\ calls[c].head # Undefined
    /\ NonSuccess(calls[c].head.status)

(* C4 as stated: for both translators, whenever the response has a           *)
(* non-success status the call fails with one error carrying the status code *)
(* and the body text.                                                        *)
C4_Original ==
    \A c \in CallIds :
        SettledOnNonSuccess(c) =>
            /\ calls[c].outcome.t = "error"
            /\ calls[c].outcome.name = "Error"
            /\ calls[c].outcome.status = calls[c].head.status

(* C4, amended: for both translators a response with a non-success status    *)
(* whose body text has been read makes the call fail with one error carrying *)
(* the status code and the body text as it came, whether or not that text is *)
(* JSON; when reading the body fails instead, the call fails with the error  *)
(* of that read (a transport error, or the reason of the aborted signal);    *)
(* either way no result is returned and the body is never      *)
(* parsed as JSON.                                                           *)
C4_HttpError ==
    \A c \in CallIds :
        SettledOnNonSuccess(c) =>
            /\ calls[c].outcome.t = "error"
            /\ calls[c].outcome.name # "SyntaxError"
            /\ IF calls[c].response # Undefined
               THEN /\ calls[c].outcome.name = "Error"
                    /\ calls[c].outcome.status = calls[c].response.status
                    /\ calls[c].outcome.text = calls[c].response.body
               ELSE \/ calls[c].outcome = TransportError
                    \/ calls[c].aborted /\ calls[c].outcome = calls[c].reason

(* A call that failed on a 429 whose body is no JSON. *)
C4_Witness ==
    \E c \in CallIds :
        /\ calls[c].pc = "done"
        /\ calls[c].response # Undefined
        /\ calls[c].response.status = 429
        /\ calls[c].response.body = TextBody("rate limited")
        /\ calls[c].outcome.t = "error"
        /\ calls[c].outcome.status = 429
        /\ calls[c].outcome.text = TextBody("rate limited")

----------------------------------------------------------------------------
(* Properties: the outbound headers (checked under SpecHeaders)             *)

ConfiguredHeader(c, name) == calls[c].model.headers.options.headers.v[name]
PerCallHeader(c, name) == calls[c].options.headers.v[name].v

(* Per-call names whose value is undefined. *)
PerCallUndefined(c) ==
    IF calls[c].options.headers = Undefined THEN {}
    ELSE {k \in DOMAIN calls[c].options.headers.v :
            calls[c].options.headers.v[k] = Undefined}

HeaderNames(c) ==
    DOMAIN calls[c].request.headers \cup ConfiguredNames(c) \cup PerCallNames(c)
    \cup PerCallUndefined(c) \cup {"Content-Type", "Authorization"}

(* Header `name` of call c's request is what the layers give: the defined    *)
(* per-call value, else the configured value, else the bearer token or the   *)
(* fixed content type, else nothing.                                         *)
LayeredHeader(c, name) ==
    LET H == calls[c].request.headers IN
    IF name \in PerCallNames(c)
    THEN name \in DOMAIN H /\ H[name] = PerCallHeader(c, name)
    ELSE IF name \in ConfiguredNames(c)
    THEN name \in DOMAIN H /\ H[name] = ConfiguredHeader(c, name)
    ELSE IF name = "Authorization"
    THEN name \in DOMAIN H /\ CarriesKeyAtBuild(c)
    ELSE IF name = "Content-Type"
    THEN name \in DOMAIN H /\ H[name] = "application/json"
    ELSE name \notin DOMAIN H

(* C5: for both translators the outbound header map is the layered merge of  *)
(* the fixed Content-Type, the configured headers with the fresh bearer      *)
(* token, and the per-call headers, later layers winning; a per-call header  *)
(* whose value is undefined is not sent and leaves the earlier layers' value *)
(* as it was.                                                                *)
C5_LayeredMerge ==
    \A c \in CallIds :
        Issued(c) =>
            /\ \A name \in HeaderNames(c) : LayeredHeader(c, name)
            /\ \A name \in PerCallUndefined(c) :
                  name \in DOMAIN calls[c].request.headers =>
                      calls[c].request.headers[name] \notin {"", "undefined"}

(* A request whose per-call headers override a configured header and carry   *)
(* undefined values for names of the earlier layers.                         *)
C5_Witness ==
    \E c \in CallIds :
        /\ Issued(c)
        /\ {"Authorization", "Content-Type"} \subseteq PerCallUndefined(c)
        /\ "X-Org" \in PerCallNames(c) \cap ConfiguredNames(c)
        /\ calls[c].request.headers["X-Org"] = "per-call"
        /\ calls[c].request.headers["Content-Type"] = "application/json"
        /\ CarriesKeyAtBuild(c)

(* C6 as stated: every request carries Content-Type: application/json and    *)
(* Authorization: Bearer <resolved key>, whatever headers are configured or  *)
(* passed per call.                                                          *)
C6_Original ==
    \A c \in CallIds :
        Issued(c) =>
            /\ "Content-Type" \in DOMAIN calls[c].request.headers
            /\ calls[c].request.headers["Content-Type"] = "application/json"
            /\ "Authorization" \in DOMAIN calls[c].request.headers
            /\ CarriesKeyAtBuild(c)

(* C6, amended: every request carries a Content-Type and an Authorization    *)
(* header; Content-Type is application/json and Authorization is             *)
(* Bearer <resolved key> unless a configured header or a defined per-call    *)
(* header of the same name overrides it.                                     *)
C6_DefaultHeaders ==
    \A c \in CallIds :
        Issued(c) =>
            /\ {"Content-Type", "Authorization"} \subseteq DOMAIN calls[c].request.headers
            /\ ~Overridden(c, "Content-Type") =>
                  calls[c].request.headers["Content-Type"] = "application/json"
            /\ ~Overridden(c, "Authorization") => CarriesKeyAtBuild(c)

(* A request with a configured extra header and a per-call extra header,     *)
(* neither touching the two default headers.                                 *)
C6_Witness ==
    \E c \in CallIds :
        /\ Issued(c)
        /\ ConfiguredNames(c) = {"X-Org"}
        /\ PerCallNames(c) = {"X-Trace"}
        /\ calls[c].request.headers["Content-Type"] = "application/json"
        /\ CarriesKeyAtBuild(c)
        /\ DOMAIN calls[c].request.headers =
              {"Content-Type", "Authorization", "X-Org", "X-Trace"}

----------------------------------------------------------------------------
(* Properties: decoding the embeddings answer (checked under SpecEmbed)     *)

EmbedSucceeded(c) ==
    /\ calls[c].pc = "done"
    /\ calls[c].kind = "embed"
    /\ calls[c].outcome.t = "ok"

(* The entries the remote API answered with. *)
AnsweredEntries(c) ==
    LET b == calls[c].response.body IN
    IF b.shape = "array" THEN b.val
    ELSE IF "data" \in DOMAIN b.val THEN b.val.data
    ELSE <<>>

(* The remote API answered with one entry per input, in the inputs' order. *)
AnsweredInOrder(c) ==
    /\ Len(AnsweredEntries(c)) = Len(calls[c].options.values)
    /\ \A i \in 1..Len(calls[c].options.values) :
          AnsweredEntries(c)[i].embedding = VectorOf(calls[c].options.values[i])

(* C7 as stated: a successful doEmbed for N inputs, 1 <= N <= 2048, returns  *)
(* exactly N vectors, the i-th being the vector of the i-th input.           *)
C7_Original ==
    \A c \in CallIds :
        (/\ EmbedSucceeded(c)
         /\ Len(calls[c].options.values) >= 1
         /\ Len(calls[c].options.values) <= calls[c].model.maxEmbeddingsPerCall) =>
            LET e == calls[c].outcome.value.embeddings IN
            /\ Len(e) = Len(calls[c].options.values)
            /\ \A i \in 1..Len(e) : e[i] = VectorOf(calls[c].options.values[i])

(* C7, amended: a successful doEmbed returns one vector per entry of the     *)
(* answer (the top-level array, or `data`, or none when `data` is missing),  *)
(* in the answer's order; so it returns N vectors, the i-th for the i-th     *)
(* input, exactly when the remote API answered with N entries in the order   *)
(* of the inputs.                                                            *)
C7_OnePerAnsweredEntry ==
    \A c \in CallIds :
        EmbedSucceeded(c) =>
            LET e == calls[c].outcome.value.embeddings IN
            /\ Len(e) = Len(AnsweredEntries(c))
            /\ \A i \in 1..Len(e) : e[i] = AnsweredEntries(c)[i].embedding
            /\ AnsweredInOrder(c) <=>
                  /\ Len(e) = Len(calls[c].options.values)
                  /\ \A i \in 1..Len(e) : e[i] = VectorOf(calls[c].options.values[i])

(* Two inputs answered by a top-level array of two entries in their order. *)
C7_Witness ==
    \E c \in CallIds :
        /\ EmbedSucceeded(c)
        /\ calls[c].options.values = <<Str("alpha"), Str("beta")>>
        /\ calls[c].response.body.shape = "array"
        /\ calls[c].outcome.value.embeddings = <<<<1, 2>>, <<3, 4>>>>

(* C8: doEmbed decodes a success body by its shape.  A top-level array gives *)
(* its elements' embedding fields in order and no usage.  An object gives    *)
(* the embedding fields of `data` in order, or no vectors when `data` is     *)
(* missing, and usage {tokens: total_tokens} when that is present, else      *)
(* {tokens: prompt_tokens} when that is present, else {tokens: 0}; usage is  *)
(* undefined when the object has no usage field.  None of these fails.       *)
C8_DecodeByShape ==
    \A c \in CallIds :
        (/\ calls[c].pc = "done"
         /\ calls[c].kind = "embed"
         /\ calls[c].response # Undefined
         /\ ~NonSuccess(calls[c].response.status)
         /\ calls[c].response.body.shape \in {"array", "object"}) =>
            LET b == calls[c].response.body
                r == calls[c].outcome.value
            IN  /\ calls[c].outcome.t = "ok"
                /\ b.shape = "array" =>
                      /\ Len(r.embeddings) = Len(b.val)
                      /\ \A i \in 1..Len(b.val) : r.embeddings[i] = b.val[i].embedding
                      /\ r.usage = Undefined
                /\ (b.shape = "object" /\ "data" \in DOMAIN b.val) =>
                      /\ Len(r.embeddings) = Len(b.val.data)
                      /\ \A i \in 1..Len(b.val.data) :
                            r.embeddings[i] = b.val.data[i].embedding
                /\ (b.shape = "object" /\ "data" \notin DOMAIN b.val) =>
                      r.embeddings = <<>>
                /\ (b.shape = "object" /\ "usage" \notin DOMAIN b.val) =>
                      r.usage = Undefined
                /\ (b.shape = "object" /\ "usage" \in DOMAIN b.val) =>
                      LET u == b.val.usage IN
                      /\ r.usage # Undefined
                      /\ "total_tokens" \in DOMAIN u => r.usage.v.tokens = u.total_tokens
                      /\ ("total_tokens" \notin DOMAIN u /\ "prompt_tokens" \in DOMAIN u) =>
                            r.usage.v.tokens = u.prompt_tokens
                      /\ DOMAIN u = {} => r.usage.v.tokens = 0

(* An object without `data` whose usage has a total_tokens of 0 beside a     *)
(* prompt_tokens of 7: no vectors, and 0 tokens.                             *)
C8_Witness ==
    \E c \in CallIds :
        /\ EmbedSucceeded(c)
        /\ calls[c].response.body.shape = "object"
        /\ DOMAIN calls[c].response.body.val = {"usage"}
        /\ calls[c].response.body.val.usage =
              [k \in {"total_tokens", "prompt_tokens"} |->
                  IF k = "total_tokens" THEN 0 ELSE 7]
        /\ calls[c].outcome.value.embeddings = <<>>
        /\ calls[c].outcome.value.usage = Obj([tokens |-> 0])

----------------------------------------------------------------------------
(* Properties: the transcription wire body (checked under SpecTranscribe)   *)

TranscribeIssued(c) == Issued(c) /\ calls[c].kind = "transcribe"

(* The caller's provider options bag for this provider: providerOptions.scx, *)
(* empty when the caller passed none.                                        *)
Bag(c) ==
    LET po == calls[c].options.providerOptions IN
    IF po = Undefined THEN <<>>
    ELSE IF "scx" \in DOMAIN po.v THEN po.v["scx"]
    ELSE <<>>

Keys(o) == {o[i][1] : i \in 1..Len(o)}

ValueOf(o, k) == o[CHOOSE i \in 1..Len(o) : o[i][1] = k][2]

B64Index(ch) == (CHOOSE i \in 1..64 : Base64Alphabet[i] = ch) - 1

CharAt(s, i) == SubSeq(s, i, i)

(* The bytes a padded base64 text stands for. *)
RECURSIVE Base64Decode(_)
Base64Decode(s) ==
    IF s = "" THEN <<>>
    ELSE LET v1 == B64Index(CharAt(s, 1))
             v2 == B64Index(CharAt(s, 2))
         IN  IF CharAt(s, 3) = "="
             THEN << v1 * 4 + v2 \div 16 >>
             ELSE LET v3 == B64Index(CharAt(s, 3)) IN
                  IF CharAt(s, 4) = "="
                  THEN << v1 * 4 + v2 \div 16, (v2 % 16) * 16 + v3 \div 4 >>
                  ELSE << v1 * 4 + v2 \div 16, (v2 % 16) * 16 + v3 \div 4,
                          (v3 % 4) * 64 + B64Index(CharAt(s, 4)) >>
                       \o Base64Decode(SubSeq(s, 5, Len(s)))

(* `text` is the padded base64 text of `bytes`. *)
IsBase64Of(text, bytes) ==
    /\ Len(text) = 4 * ((Len(bytes) + 2) \div 3)
    /\ Base64Decode(text) = bytes

(* The audio field is the caller's audio as a string. *)
AudioIsCallersAudio(field, audio) ==
    /\ field.t = "string"
    /\ audio.t = "Uint8Array" => IsBase64Of(field.v, audio.v)
    /\ audio.t = "string" => field = audio

(* C9: the transcription wire body is {model, audio, media_type} with every  *)
(* key of the caller's provider options bag merged in: each key of the bag   *)
(* is in the body with the bag's value, also when it is named model, audio   *)
(* or media_type, and the base fields the bag does not name keep the model   *)
(* id, the encoded audio and the media type.                                 *)
C9_ShallowMerge ==
    \A c \in CallIds :
        TranscribeIssued(c) =>
            LET wire == calls[c].request.wire
                bag == Bag(c)
            IN  /\ Keys(wire) = {"model", "audio", "media_type"} \cup Keys(bag)
                /\ Len(wire) = Cardinality(Keys(wire))
                /\ \A k \in Keys(bag) : ValueOf(wire, k) = ValueOf(bag, k)
                /\ "model" \notin Keys(bag) =>
                      ValueOf(wire, "model") = Str(calls[c].model.modelId)
                /\ "audio" \notin Keys(bag) =>
                      AudioIsCallersAudio(ValueOf(wire, "audio"), calls[c].options.audio)
                /\ "media_type" \notin Keys(bag) =>
                      ValueOf(wire, "media_type") = Str(calls[c].options.mediaType)

(* A request whose bag adds `prompt` and overrides `audio` and `media_type`. *)
C9_Witness ==
    \E c \in CallIds :
        /\ TranscribeIssued(c)
        /\ Keys(Bag(c)) = {"prompt", "audio", "media_type"}
        /\ calls[c].request.body =
              "{\"model\":\"whisper-large-v3\",\"audio\":7,"
              \o "\"media_type\":\"audio/mp3\",\"prompt\":\"hi\"}"

(* C10 as stated: in every transcription request the wire body's audio field *)
(* is a string: the base64 text of the bytes when the caller passed raw      *)
(* binary, the caller's text when the caller passed a string.                *)
C10_Original ==
    \A c \in CallIds :
        TranscribeIssued(c) =>
            AudioIsCallersAudio(ValueOf(calls[c].request.wire, "audio"),
                                calls[c].options.audio)

(* C10, amended: in every transcription request whose provider options bag   *)
(* has no key named audio, the wire body's audio field is a string: the      *)
(* base64 text of the bytes when the caller passed raw binary, the caller's  *)
(* text unchanged when the caller passed a string; a bag key named audio     *)
(* replaces the field with its own value, string or not.                     *)
C10_AudioString ==
    \A c \in CallIds :
        TranscribeIssued(c) =>
            LET field == ValueOf(calls[c].request.wire, "audio") IN
            IF "audio" \in Keys(Bag(c))
            THEN field = ValueOf(Bag(c), "audio")
            ELSE AudioIsCallersAudio(field, calls[c].options.audio)

(* Two raw bytes sent as their padded base64 text. *)
C10_Witness ==
    \E c \in CallIds :
        /\ TranscribeIssued(c)
        /\ calls[c].options.audio = Bytes(<<255, 77>>)
        /\ "audio" \notin Keys(Bag(c))
        /\ ValueOf(calls[c].request.wire, "audio") = Str("/00=")

----------------------------------------------------------------------------
(* Properties: the diagnostics of doGenerate (checked under SpecTranscribe)  *)

TranscribeSucceeded(c) ==
    /\ calls[c].kind = "transcribe"
    /\ calls[c].pc = "done"
    /\ calls[c].outcome.t = "ok"

(* C11: for every successful doGenerate call the returned request.body is    *)
(* exactly the string that was handed to fetch as the HTTP request body,     *)
(* and that string is the one serialization of the wire body.                *)
C11_BodyReturnedIsBodySent ==
    \A c \in CallIds :
        TranscribeSucceeded(c) =>
            /\ calls[c].outcome.value.request.body = calls[c].request.body
            /\ calls[c].request.body = JSONStringify(calls[c].request.wire)

(* A successful call whose provider options added a field to the wire body:  *)
(* the returned body is the sent text, provider field included.              *)
C11_Witness ==
    \E c \in CallIds :
        /\ TranscribeSucceeded(c)
        /\ Keys(Bag(c)) = {"language", "temperature"}
        /\ calls[c].outcome.value.request.body =
              "{\"model\":\"whisper-large-v3\",\"audio\":\"TWFu\","
              \o "\"media_type\":\"audio/wav\",\"language\":\"en\",\"temperature\":0}"
        /\ calls[c].request.body = calls[c].outcome.value.request.body

TranscribeAnswer(c) == calls[c].response.body.val

(* doGenerate has settled on a success answer whose body is a JSON object. *)
TranscribeAnswered(c) ==
    /\ calls[c].kind = "transcribe"
    /\ calls[c].pc = "done"
    /\ calls[c].response # Undefined
    /\ ~NonSuccess(calls[c].response.status)
    /\ calls[c].response.body.shape = "object"

(* C12: on a success body doGenerate does not fail, whatever fields the body *)
(* has.  For a body with a segments list it returns one segment per response *)
(* segment in order, carrying its text, its start as startSecond and its end *)
(* as endSecond; a body with no segments field (or a null one) gives the     *)
(* empty sequence and a body with no text field (or a null one) gives the    *)
(* empty string; language and duration pass through, undefined when the body *)
(* has none.                                                                 *)
C12_DecodeTranscription ==
    \A c \in CallIds :
        TranscribeAnswered(c) =>
            LET o == TranscribeAnswer(c)
                v == calls[c].outcome.value
            IN  /\ calls[c].outcome.t = "ok"
                /\ ("segments" \in DOMAIN o /\ o.segments # Null) =>
                      /\ Len(v.segments) = Len(o.segments.v)
                      /\ \A i \in 1..Len(o.segments.v) :
                            /\ v.segments[i].text = Field(o.segments.v[i], "text")
                            /\ v.segments[i].startSecond = Field(o.segments.v[i], "start")
                            /\ v.segments[i].endSecond = Field(o.segments.v[i], "end")
                /\ "segments" \notin DOMAIN o => v.segments = <<>>
                /\ ("segments" \in DOMAIN o /\ o.segments = Null) => v.segments = <<>>
                /\ "text" \notin DOMAIN o => v.text = Str("")
                /\ ("text" \in DOMAIN o /\ o.text = Null) => v.text = Str("")
                /\ ("text" \in DOMAIN o /\ o.text # Null) => v.text = o.text
                /\ v.language = Field(o, "language")
                /\ v.durationInSeconds = Field(o, "duration")
                /\ "language" \notin DOMAIN o => v.language = Undefined
                /\ "duration" \notin DOMAIN o => v.durationInSeconds = Undefined

(* A 200 answer with a language and neither segments nor text: the call has  *)
(* succeeded with no segments, the empty text, the language and no duration. *)
C12_Witness ==
    \E c \in CallIds :
        /\ TranscribeAnswered(c)
        /\ DOMAIN TranscribeAnswer(c) = {"language"}
        /\ calls[c].outcome.t = "ok"
        /\ calls[c].outcome.value.segments = <<>>
        /\ calls[c].outcome.value.text = Str("")
        /\ calls[c].outcome.value.language = Str("en")
        /\ calls[c].outcome.value.durationInSeconds = Undefined

(* An empty object is decoded as well. *)
C12_EmptyBodyReached ==
    \E c \in CallIds :
        /\ TranscribeAnswered(c)
        /\ TranscribeAnswer(c) = EmptyObj
        /\ calls[c].outcome.t = "ok"
        /\ calls[c].outcome.value.segments = <<>>
        /\ calls[c].outcome.value.text = Str("")

(* A body with every field: two segments in order, text, language, duration. *)
C12_FullBodyReached ==
    \E c \in CallIds :
        /\ TranscribeAnswered(c)
        /\ TranscribeAnswer(c) =
              [text |-> Str("hi there"),
               segments |-> Arr(<<Segment("hi", 0, 1), Segment("there", 1, 3)>>),
               language |-> Str("en"), duration |-> Num(3)]
        /\ calls[c].outcome.t = "ok"
        /\ calls[c].outcome.value.segments =
              << [text |-> "hi", startSecond |-> 0, endSecond |-> 1],
                 [text |-> "there", startSecond |-> 1, endSecond |-> 3] >>
        /\ calls[c].outcome.value.text = Str("hi there")
        /\ calls[c].outcome.value.language = Str("en")
        /\ calls[c].outcome.value.durationInSeconds = Num(3)

----------------------------------------------------------------------------
(* Properties: cancellation (checked under Spec)                            *)

(* What the code after the await makes of the response call c received. *)
OutcomeOfResponse(c) ==
    IF calls[c].kind = "embed"
    THEN doEmbedFinish(calls[c].response)
    ELSE doGenerateFinish(calls[c].model, calls[c].request.body, calls[c].response)

(* The call has failed with the reason its signal was aborted with. *)
CancellationIndication(c) ==
    /\ calls[c].aborted
    /\ calls[c].outcome = calls[c].reason

(* The signal was aborted before the HTTP call of c resolved: before the     *)
(* call was made, or while fetchFn was awaited; and c has settled.           *)
SettledAfterEarlyAbort(c) ==
    /\ Issued(c)
    /\ calls[c].pc = "done"
    /\ calls[c].abortedAt \in {"start", "inflight"}

(* A call aborted after the response had been received in full and the call  *)
(* had settled keeps the outcome it had: the decoded response, or the error  *)
(* it failed with, which is no cancellation.                                 *)
LateAbortHasNoEffect(c) ==
    (calls[c].pc = "done" /\ calls[c].abortedAt = "done") =>
        IF calls[c].response # Undefined
        THEN calls[c].outcome = OutcomeOfResponse(c)
        ELSE /\ calls[c].outcome.t = "error"
             /\ calls[c].outcome.name \in {"TypeError", "LoadAPIKeyError"}

(* C13 as stated: the signal handed to the HTTP call is the caller's signal; *)
(* a call whose signal was aborted before its HTTP call resolved settles     *)
(* with a cancellation and never with a result; an abort after the response  *)
(* was received in full changes nothing.                                     *)
C13_Original ==
    \A c \in CallIds :
        /\ Issued(c) => calls[c].request.signal = calls[c].options.abortSignal
        /\ SettledAfterEarlyAbort(c) => CancellationIndication(c)
        /\ LateAbortHasNoEffect(c)

(* C13, amended: the signal handed to fetchFn is the caller's signal; on the *)
(* fetch of the runtime, which acts on the signal, a call whose signal was   *)
(* aborted before its HTTP call resolved (before the call was made, or while *)
(* fetchFn was awaited) fails with the reason the signal was aborted with    *)
(* and never yields a result; on a fetch of the caller the outcome is what   *)
(* that transport resolves or rejects with; a call whose signal was aborted  *)
(* after the response had been received in full and the call had settled     *)
(* keeps the outcome it had.  (Between the two, with fetchFn resolved and    *)
(* the body still being read, the transport decides: see the states below.)  *)
C13_Cancellation ==
    \A c \in CallIds :
        /\ Issued(c) => calls[c].request.signal = calls[c].options.abortSignal
        /\ (SettledAfterEarlyAbort(c) /\ HonoursSignal(calls[c])) =>
              CancellationIndication(c)
        /\ LateAbortHasNoEffect(c)

(* A request on the fetch of the runtime cancelled while in flight: the call *)
(* has failed with the AbortError of the signal.                             *)
C13_Witness ==
    \E c \in CallIds :
        /\ Issued(c)
        /\ calls[c].pc = "done"
        /\ HonoursSignal(calls[c])
        /\ calls[c].abortedAt = "inflight"
        /\ calls[c].request.signal = AbortSignal
        /\ calls[c].outcome = AbortError

(* The same with controller.abort(new Error("stop")): the call has failed    *)
(* with that error.                                                          *)
C13_AbortWithReasonReached ==
    \E c \in CallIds :
        /\ calls[c].pc = "done"
        /\ HonoursSignal(calls[c])
        /\ calls[c].abortedAt = "inflight"
        /\ calls[c].outcome = StopError

(* A signal of AbortSignal.timeout() that fired before the call was made:    *)
(* the call has failed with the TimeoutError.                                *)
C13_TimedOutReached ==
    \E c \in CallIds :
        /\ Issued(c)
        /\ calls[c].pc = "done"
        /\ HonoursSignal(calls[c])
        /\ calls[c].abortedAt = "start"
        /\ calls[c].request.signal = TimedOutSignal
        /\ calls[c].outcome = TimeoutError

(* On a fetch of the caller that does not act on the signal, a call aborted  *)
(* while in flight has its result, or the HTTP error of its response, or the *)
(* TypeError of the transport.                                               *)
C13_IgnoredAbortResolved ==
    \E c \in CallIds :
        /\ calls[c].pc = "done"
        /\ ~HonoursSignal(calls[c])
        /\ calls[c].abortedAt \in {"start", "inflight"}
        /\ calls[c].outcome.t = "ok"

C13_IgnoredAbortHttpError ==
    \E c \in CallIds :
        /\ calls[c].pc = "done"
        /\ ~HonoursSignal(calls[c])
        /\ calls[c].abortedAt = "inflight"
        /\ calls[c].response # Undefined
        /\ calls[c].outcome = HttpError("transcription", 429, TextBody("rate limited"))

C13_IgnoredAbortTransportError ==
    \E c \in CallIds :
        /\ calls[c].pc = "done"
        /\ ~HonoursSignal(calls[c])
        /\ calls[c].abortedAt = "inflight"
        /\ calls[c].head = Undefined
        /\ calls[c].outcome = TransportError

(* A signal aborted while the body was being read, on a transport that       *)
(* delivers the body all the same: the call has its result.                  *)
C13_AbortWhileReadingResolved ==
    \E c \in CallIds :
        /\ calls[c].pc = "done"
        /\ calls[c].abortedAt = "reading"
        /\ calls[c].outcome.t = "ok"

(* The same, on a transport that ties the body to the signal: the read fails *)
(* with the reason of the signal, or with a body that has become unusable.   *)
C13_AbortWhileReadingCancelled ==
    \E c \in CallIds :
        /\ calls[c].pc = "done"
        /\ calls[c].abortedAt = "reading"
        /\ calls[c].outcome = StopError

C13_AbortWhileReadingUnusable ==
    \E c \in CallIds :
        /\ calls[c].pc = "done"
        /\ calls[c].abortedAt = "reading"
        /\ calls[c].head.status = 200
        /\ calls[c].response = Undefined
        /\ calls[c].outcome = TransportError

(* A signal aborted after the call succeeded: the result stands. *)
C13_LateAbortReached ==
    \E c \in CallIds :
        /\ calls[c].pc = "done"
        /\ calls[c].abortedAt = "done"
        /\ calls[c].outcome.t = "ok"

----------------------------------------------------------------------------
(* Properties: the chat entry point (checked under SpecChat)                 *)

(* C14: a call of the provider function with `new` throws the explicit       *)
(* error at once: the step returns no chat model, issues no request and      *)
(* leaves provider, models and calls as they were; a plain call returns the  *)
(* chat model of the delegate.                                               *)
C14_NewKeywordRejected ==
    [][ (chat = NoChatCall /\ chat' # NoChatCall /\ chat'.entry = "provider") =>
          IF chat'.newTarget
          THEN /\ chat'.result = Threw("Error", NewKeywordMessage)
               /\ UNCHANGED <<env, provider, models, calls>>
          ELSE /\ chat'.result =
                     Returned(chatModel(provider.openaiCompatible, ChatModelId))
               /\ UNCHANGED <<env, provider, models, calls>> ]_vars

(* `new scx('DeepSeek-V3.1')` has thrown the explicit error. *)
C14_Witness ==
    /\ chat # NoChatCall
    /\ chat.entry = "provider"
    /\ chat.newTarget
    /\ chat.result.status = "threw"
    /\ chat.result.message = NewKeywordMessage
    /\ \A c \in CallIds : calls[c].fetchCount = 0

(* `scx('DeepSeek-V3.1')` has returned the delegate's chat model. *)
C14_PlainCallReached ==
    /\ chat # NoChatCall
    /\ chat.entry = "provider"
    /\ ~chat.newTarget
    /\ chat.result.status = "returned"
    /\ chat.result.model.config = provider.openaiCompatible

(* The key a request of an embedding or transcription model of this provider *)
(* would carry if it were built now.                                         *)
TranslatorKeyNow == getApiKey(provider.options, env)

(* C15: once the provider exists, whatever key changes and model creations   *)
(* have happened, the chat delegate, and any chat model it has handed out,   *)
(* is configured with the key, the extra headers, the base URL and the       *)
(* transport that an embedding or transcription request of the same provider *)
(* would use now.                                                            *)
C15_DelegateMatchesTranslators ==
    provider.status = "ready" =>
        LET delegate == provider.openaiCompatible IN
        /\ TranslatorKeyNow.ok
        /\ delegate.apiKey = TranslatorKeyNow.key
        /\ delegate.headers = provider.options.headers
        /\ delegate.baseURL = provider.baseURL
        /\ delegate.fetch = provider.options.fetch
        /\ \A m \in models : m.fetch = delegate.fetch
        /\ (chat # NoChatCall /\ chat.result.status = "returned") =>
              chat.result.model.config = delegate

----------------------------------------------------------------------------
(* Properties: calls in progress at once (checked under SpecConcurrent)      *)

(* The call as its own arguments and the key in force when it built its      *)
(* headers make it: the request it issues, or the failure before any.        *)
OwnStart(c) ==
    IF calls[c].kind = "embed"
    THEN doEmbedStart(calls[c].model, calls[c].options, calls[c].envAtBuild)
    ELSE doGenerateStart(calls[c].model, calls[c].options, calls[c].envAtBuild)

(* The outcome of a settled call follows from its own start and from what    *)
(* came back for its own request: the response, or the rejection of fetch or *)
(* of the read of the body (a transport error, or the reason its own signal  *)
(* was aborted with).                                                        *)
OwnOutcome(c) ==
    IF OwnStart(c).pc = "done" THEN calls[c].outcome = OwnStart(c).outcome
    ELSE IF calls[c].response # Undefined THEN calls[c].outcome = OutcomeOfResponse(c)
    ELSE \/ calls[c].outcome = TransportError
         \/ calls[c].aborted /\ calls[c].outcome = calls[c].reason

(* C16: with several doEmbed and doGenerate calls in progress on models of   *)
(* one provider, in any interleaving, the request and the outcome of each    *)
(* call follow from its own arguments, the key in force when it built its    *)
(* headers and the answer to its own request; a step of one call changes no  *)
(* other call and changes neither the provider, its models nor the key.      *)
C16_CallsIndependent ==
    /\ [](\A c \in DOMAIN calls :
             calls[c].pc # "idle" =>
                 /\ calls[c].request = OwnStart(c).request
                 /\ calls[c].pc = "done" => OwnOutcome(c))
    /\ [][\A c \in DOMAIN calls :
             calls'[c] # calls[c] =>
                 /\ \A d \in DOMAIN calls \ {c} : calls'[d] = calls[d]
                 /\ UNCHANGED <<env, provider, models>>]_vars

(* Two embedding calls made under different keys, one settled with the       *)
(* result of its own answer while the request of the other is in flight.     *)
C16_Witness ==
    \E c, d \in DOMAIN calls :
        /\ c # d
        /\ calls[c].kind = "embed" /\ calls[d].kind = "embed"
        /\ calls[c].pc = "done" /\ calls[d].pc = "inflight"
        /\ calls[c].envAtBuild # calls[d].envAtBuild
        /\ calls[c].outcome.t = "ok"
        /\ calls[c].request.headers["Authorization"] = "Bearer sk-env-1"
        /\ calls[d].request.headers["Authorization"] = "Bearer sk-env-2"

----------------------------------------------------------------------------
(* Properties: headers before the request (checked under Spec)               *)

(* The configured headers as they resolved when call c was entered. *)
HeadersAtBuild(c) == getHeaders(calls[c].model.headers.options, calls[c].envAtBuild)

(* C17: a call whose key could not be resolved when it was entered has       *)
(* failed with the key error and has issued no request; every other call has *)
(* issued its request with the header map built from the key in force when   *)
(* it was entered, and that map stays as built whatever becomes of the key   *)
(* while the request is in flight.                                           *)
C17_HeadersBeforeRequest ==
    \A c \in CallIds :
        calls[c].pc # "idle" =>
            IF HeadersAtBuild(c).ok
            THEN /\ Issued(c)
                 /\ calls[c].request.headers =
                       BuildHeaders(HeadersAtBuild(c).headers, calls[c].options.headers)
            ELSE /\ calls[c].pc = "done"
                 /\ calls[c].outcome = ErrorOf("LoadAPIKeyError", 0, Undefined)
                 /\ ~Issued(c)
                 /\ calls[c].fetchCount = 0

(* A request in flight under the key it was built with, the key having been  *)
(* rotated since.                                                            *)
C17_Witness ==
    \E c \in CallIds :
        /\ calls[c].pc = "inflight"
        /\ calls[c].model.headers.options.apiKey = Undefined
        /\ calls[c].options.headers = Undefined
        /\ calls[c].envAtBuild = Str("sk-env-1")
        /\ env = Str("sk-env-2")
        /\ calls[c].request.headers["Authorization"] = "Bearer sk-env-1"

(* A call entered with no key to resolve: failed, nothing sent. *)
C17_KeyFailureReached ==
    \E c \in CallIds :
        /\ calls[c].pc = "done"
        /\ calls[c].outcome = ErrorOf("LoadAPIKeyError", 0, Undefined)
        /\ calls[c].fetchCount = 0

====
